---- MODULE Spec2Model ----
(***************************************************************************)
(* Queue-driven ingestion pipeline of doc-chat: the polling QueueWorker,   *)
(* the queue status state machine, DocumentProcessingService, the          *)
(* fixed-size chunker, the OpenAI embedding client and the two stores     *)
(* (Prisma Chunk table, Milvus collection).                                *)
(*                                                                         *)
(* Every action is one resumption of an async function: the awaited        *)
(* external call settles (resolves or rejects) and the code runs up to     *)
(* the next await.                                                         *)
(***************************************************************************)
EXTENDS Integers, Sequences, FiniteSets, TLC

\* ------------------------------------------------------------------ bounds
NumItems == 2          \* uploads (File + Queue rows) that may be created
BigLen == 150          \* characters of the long document
MaxLoops == 2          \* polling loops that may be alive at once
MaxTexts == 201        \* texts of one embedBatch call (two full batches + 1)
MaxTextLen == 6   \* longest text of the chunker calls that are enumerated
MaxWindow == 3    \* largest chunkSize and chunkOverlap that are enumerated

\* ------------------------------------------------------- program constants
batchSize == 100       \* OpenAIEmbeddingService.embedBatch
embedding_version == 1 \* DocumentProcessingService, vectorsToInsert

\* A nullable value: Null, or Some(x).
Null == << >>
Some(x) == <<x>>

ItemIds == 1..NumItems
Workers == {1, 2}
LoopIds == 1..MaxLoops

Min(a, b) == IF a < b THEN a ELSE b

\* The array holding f[1], ..., f[n] (the result of a map, materialised).
Array(f) == SubSeq(f, 1, Len(f))

\* A thrown value: an Error with a message, or any other value.
Err(msg) == [isError |-> TRUE, message |-> msg]
NonError(v) == [isError |-> FALSE, message |-> v]

Ok(v) == [ok |-> TRUE, value |-> v]
Throw(e) == [ok |-> FALSE, error |-> e]

\* ----------------------------------------------------------------- chunker
\* A text is a sequence of character codes; code 0 is a whitespace character.
Blank == 0
strategyName == "fixed-size"

\* A test that takes a text with any whitespace character for empty.
TrimIsEmpty_any(s) == \E k \in 1..Len(s) : s[k] = Blank

\* s.trim().length === 0
TrimIsEmpty(s) == \A k \in 1..Len(s) : s[k] = Blank

\* text.substring(a, b), 0-based, for 0 <= a <= b <= length
substring(text, a, b) == SubSeq(text, a + 1, b)

\* An iteration without the break: the loop goes on until startChar has
\* passed the end of the text.
chunkIteration_noBreak(text, chunkSize, stepSize, st) ==
  IF st.exited THEN st
  ELSE IF ~(st.startChar < Len(text)) THEN [st EXCEPT !.exited = TRUE]
  ELSE LET endChar == Min(st.startChar + chunkSize, Len(text))
           chunkText == SubSeq(text, st.startChar + 1, endChar)
           emit == \E k \in 1..Len(chunkText) : chunkText[k] # Blank
       IN [startChar |-> st.startChar + stepSize,
           chunkIndex |-> IF emit THEN st.chunkIndex + 1 ELSE st.chunkIndex,
           chunks |-> IF emit
                      THEN Append(st.chunks,
                             [text |-> chunkText,
                              chunkIndex |-> st.chunkIndex,
                              metadata |-> [startChar |-> st.startChar,
                                            endChar |-> endChar,
                                            chunkStrategy |-> strategyName]])
                      ELSE st.chunks,
           exited |-> FALSE]

\* An iteration that counts the skipped windows too.
chunkIteration_indexAll(text, chunkSize, stepSize, st) ==
  IF st.exited THEN st
  ELSE IF ~(st.startChar < Len(text)) THEN [st EXCEPT !.exited = TRUE]
  ELSE LET endChar == Min(st.startChar + chunkSize, Len(text))
           chunkText == SubSeq(text, st.startChar + 1, endChar)
           emit == \E k \in 1..Len(chunkText) : chunkText[k] # Blank
       IN [startChar |-> st.startChar + stepSize,
           chunkIndex |-> st.chunkIndex + 1,
           chunks |-> IF emit
                      THEN Append(st.chunks,
                             [text |-> chunkText,
                              chunkIndex |-> st.chunkIndex,
                              metadata |-> [startChar |-> st.startChar,
                                            endChar |-> endChar,
                                            chunkStrategy |-> strategyName]])
                      ELSE st.chunks,
           exited |-> endChar >= Len(text)]

\* One iteration of the while loop of FixedSizeChunkingStrategy.chunk on the
\* loop's variables; `exited` is set once the loop condition fails or the
\* break is taken, and the iteration then changes nothing.
chunkIteration(text, chunkSize, stepSize, st) ==
  IF st.exited THEN st
  ELSE IF ~(st.startChar < Len(text)) THEN [st EXCEPT !.exited = TRUE]
  ELSE LET endChar == Min(st.startChar + chunkSize, Len(text))
           chunkText == substring(text, st.startChar, endChar)
           emit == ~TrimIsEmpty(chunkText)
       IN [startChar |-> st.startChar + stepSize,
           chunkIndex |-> IF emit THEN st.chunkIndex + 1 ELSE st.chunkIndex,
           chunks |-> IF emit
                      THEN Append(st.chunks,
                             [text |-> chunkText,
                              chunkIndex |-> st.chunkIndex,
                              metadata |-> [startChar |-> st.startChar,
                                            endChar |-> endChar,
                                            chunkStrategy |-> strategyName]])
                      ELSE st.chunks,
           exited |-> endChar >= Len(text)]

\* The loop run for at most n iterations (halved, to keep the evaluation
\* shallow).
RECURSIVE chunkLoop(_, _, _, _, _)
chunkLoop(text, chunkSize, stepSize, st, n) ==
  IF n = 0 THEN st
  ELSE IF n = 1 THEN chunkIteration(text, chunkSize, stepSize, st)
  ELSE LET half == chunkLoop(text, chunkSize, stepSize, st, n \div 2)
       IN IF half.exited THEN half
          ELSE chunkLoop(text, chunkSize, stepSize, half, n - (n \div 2))

\* A chunker that tests for an empty text before it validates the
\* configuration.
chunk_emptyFirst(text, config) ==
  IF Len(text) = 0 \/ TrimIsEmpty(text)
    THEN Ok(<< >>)
  ELSE IF config.chunkSize <= 0
    THEN Throw(Err(<<"Chunk size must be greater than 0">>))
  ELSE IF config.chunkOverlap < 0
    THEN Throw(Err(<<"Chunk overlap must be non-negative">>))
  ELSE IF config.chunkOverlap >= config.chunkSize
    THEN Throw(Err(<<"Chunk overlap must be less than chunk size">>))
  ELSE Ok(chunkLoop(text, config.chunkSize,
                    config.chunkSize - config.chunkOverlap,
                    [startChar |-> 0, chunkIndex |-> 0, chunks |-> << >>,
                     exited |-> FALSE],
                    Len(text) + 1).chunks)

\* A chunker that advances by the whole window: the overlap is ignored.
chunk_noOverlap(text, config) ==
  IF config.chunkSize <= 0
    THEN Throw(Err(<<"Chunk size must be greater than 0">>))
  ELSE IF config.chunkOverlap < 0
    THEN Throw(Err(<<"Chunk overlap must be non-negative">>))
  ELSE IF config.chunkOverlap >= config.chunkSize
    THEN Throw(Err(<<"Chunk overlap must be less than chunk size">>))
  ELSE IF Len(text) = 0 \/ TrimIsEmpty(text)
    THEN Ok(<< >>)
  ELSE Ok(chunkLoop(text, config.chunkSize, config.chunkSize,
                    [startChar |-> 0, chunkIndex |-> 0, chunks |-> << >>,
                     exited |-> FALSE],
                    Len(text) + 1).chunks)

\* FixedSizeChunkingStrategy.chunk(text, {chunkSize, chunkOverlap})
chunk(text, config) ==
  IF config.chunkSize <= 0
    THEN Throw(Err(<<"Chunk size must be greater than 0">>))
  ELSE IF config.chunkOverlap < 0
    THEN Throw(Err(<<"Chunk overlap must be non-negative">>))
  ELSE IF config.chunkOverlap >= config.chunkSize
    THEN Throw(Err(<<"Chunk overlap must be less than chunk size">>))
  ELSE IF Len(text) = 0 \/ TrimIsEmpty(text)
    THEN Ok(<< >>)
  ELSE \* stepSize >= 1, so the loop has exited after Len(text) + 1 tests
       Ok(chunkLoop(text, config.chunkSize,
                    config.chunkSize - config.chunkOverlap,
                    [startChar |-> 0, chunkIndex |-> 0, chunks |-> << >>,
                     exited |-> FALSE],
                    Len(text) + 1).chunks)

\* ------------------------------------------------------------ environment
\* process.env as the pipeline reads it: CHUNK_SIZE and CHUNK_OVERLAP after
\* parseInt, DEFAULT_CHUNKING_STRATEGY, whether OPENAI_API_KEY and
\* VECTOR_COLLECTION_NAME are set, the embedding model's name, and
\* VECTOR_DIMENSION after parseInt (the dimension the collection is
\* provisioned with).
MkEnv(size, overlap, strategy, key, coll) ==
  [CHUNK_SIZE |-> size, CHUNK_OVERLAP |-> overlap,
   DEFAULT_CHUNKING_STRATEGY |-> strategy,
   OPENAI_API_KEY |-> key, VECTOR_COLLECTION_NAME |-> coll,
   OPENAI_EMBEDDING_MODEL |-> "text-embedding-ada-002",
   VECTOR_DIMENSION |-> 1536]

Envs ==
  { MkEnv(1, 0, "fixed-size", TRUE, TRUE),
    MkEnv(2, 2, "fixed-size", TRUE, TRUE),
    MkEnv(1, 0, "semantic", TRUE, TRUE),
    MkEnv(1, 0, "fixed-size", FALSE, TRUE),
    MkEnv(1, 0, "fixed-size", TRUE, FALSE),
    [MkEnv(1, 0, "fixed-size", TRUE, TRUE)
       EXCEPT !.OPENAI_EMBEDDING_MODEL = "text-embedding-3-large"] }

\* ------------------------------------------------------------------ files
\* What an upload hands to the pipeline: the File row's mimeType and url.
FileKinds ==
  { [mimeType |-> "application/pdf", url |-> "short.pdf"],
    [mimeType |-> "application/pdf", url |-> "blank.pdf"],
    [mimeType |-> "application/pdf", url |-> "long.pdf"],
    [mimeType |-> "text/plain", url |-> "notes.txt"] }

PdfKinds == { [mimeType |-> "application/pdf", url |-> "short.pdf"] }

\* The text pdf-parse extracts from the stored bytes (pdfData.text).
BigText == Array([k \in 1..BigLen |-> k])

pdfParse(url) ==
  IF url = "long.pdf" THEN BigText
  ELSE IF url = "blank.pdf" THEN <<Blank, Blank>>
  ELSE <<1, Blank, 2>>

\* ------------------------------------------------------------------ loader
supportedMimeTypes == {"application/pdf"}

\* PDFDocumentLoader.supports
supports(mimeType) == mimeType \in supportedMimeTypes

\* DocumentLoaderFactory.getSupportedMimeTypes, joined with ', '
getSupportedMimeTypes == <<"application/pdf">>

\* DocumentLoaderFactory.getLoader
getLoader(mimeType) ==
  IF supports(mimeType) THEN Ok("PDFDocumentLoader")
  ELSE Throw(Err(<<"No document loader found for MIME type: ", mimeType,
                   ". Supported types: ">> \o getSupportedMimeTypes))

\* ChunkingStrategyFactory.getStrategy
getStrategy(name) ==
  IF name = strategyName THEN Ok(strategyName)
  ELSE Throw(Err(<<"Chunking strategy '", name,
                   "' not found. Available strategies: ", strategyName>>))

\* ---------------------------------------------------------------- embedder
\* OpenAIEmbeddingService.getModelDimension: the length of the vectors the
\* model returns.
getModelDimension(model) ==
  IF model = "text-embedding-3-large" THEN 3072 ELSE 1536

\* The provider's embedding of one text (a value determined by the text).
Embedding(text) == <<"embedding", text>>

\* A slice that is not capped: everything from i on goes into one request.
slice_uncapped(texts, from, to) == SubSeq(texts, from + 1, Len(texts))

\* response.usage of one embeddings.create request: the provider counts one
\* token per text of the request (the texts are single characters); a
\* request has no completion tokens.
Usage(batch) == [prompt_tokens |-> Len(batch), total_tokens |-> Len(batch)]

\* texts.slice(i, i + batchSize)
slice(texts, from, to) == SubSeq(texts, from + 1, Min(to, Len(texts)))

\* response.data of one embeddings.create request, in the order of `order`
\* (a permutation of 1..Len(batch)); item k carries index k - 1.
ResponseData(batch, order) ==
  Array([p \in 1..Len(batch) |->
           [index |-> order[p] - 1, embedding |-> Embedding(batch[order[p]])]])

\* The orders in which the provider may list the items of a response: as
\* requested, reversed, or rotated by one.
Orders(n) ==
  { [p \in 1..n |-> p], [p \in 1..n |-> n + 1 - p],
    [p \in 1..n |-> (p % n) + 1] }

\* An embedBatch that keeps the order of the response.
sortByIndex_asReturned(data) == data

\* Array.prototype.sort((a, b) => a.index - b.index), a stable sort: item p
\* lands after the items of smaller index and the equal ones before it.
sortByIndex(data) ==
  LET n == Len(data)
      keyed == { <<p, data[p].index>> : p \in 1..n }
      ranked == { <<1 + Cardinality({ q \in keyed :
                                        \/ q[2] - e[2] < 0
                                        \/ q[2] = e[2] /\ q[1] < e[1] }),
                    e[1]>> : e \in keyed }
  IN Array([k \in 1..n |-> data[(CHOOSE e \in ranked : e[1] = k)[2]]])

\* batchEmbeddings of one loop iteration of embedBatch
batchEmbeddings(data) ==
  LET sorted == sortByIndex(data)
  IN Array([k \in 1..Len(sorted) |-> sorted[k].embedding])

\* The catch of embedBatch: the fault rethrown as a new Error.
embedBatchError(error) ==
  Err(<<"Failed to generate batch embeddings: ">> \o
      (IF error.isError THEN error.message ELSE <<"Unknown error">>))

\* The catch of PDFDocumentLoader.load
loadError(error) ==
  Err(<<"Failed to load PDF document: ">> \o
      (IF error.isError THEN error.message ELSE <<"Unknown error">>))

\* ------------------------------------------------------------- chunk store
\* The Chunk table is a sequence of rows; the unique index
\* Chunk_fileId_chunkIndex_key is what createMany's skipDuplicates tests.
\* The values of the unique index Chunk_fileId_chunkIndex_key.
ChunkKeys(table) ==
  { <<table[k].fileId, table[k].chunkIndex>> : k \in 1..Len(table) }

\* A batch insert that skips nothing.
Inserted_all(table, data) == 1..Len(data)

\* prisma.chunk.createMany({data, skipDuplicates: true}), an INSERT that
\* does nothing on a conflict: row k is inserted unless its
\* (fileId, chunkIndex) is in the table or in an earlier row of the batch.
Inserted(table, data) ==
  LET present == ChunkKeys(table)
      keyed == { <<k, <<data[k].fileId, data[k].chunkIndex>> >> :
                   k \in 1..Len(data) }
      kept == { e \in keyed :
                  /\ e[2] \notin present
                  /\ \A d \in keyed : d[2] = e[2] => d[1] >= e[1] }
  IN { e[1] : e \in kept }

\* The rows of data at the positions ks, in order.
Pick(data, ks) ==
  LET pos == { <<Cardinality({ j \in ks : j <= k }), k>> : k \in ks }
  IN Array([p \in 1..Cardinality(ks) |->
              data[(CHOOSE e \in pos : e[1] = p)[2]]])

\* A batch insert that reports the size of the batch.
createManyChunks_all(table, data) ==
  [table |-> table \o Pick(data, Inserted(table, data)),
   count |-> Len(data)]

\* createManyChunks(data): the table after the call and the count returned
createManyChunks(table, data) ==
  LET ks == Inserted(table, data)
  IN [table |-> table \o Pick(data, ks), count |-> Cardinality(ks)]

\* ------------------------------------------------------------ vector store
\* insertVectors: the rows handed to client.insert
milvusData(vectors) ==
  Array([k \in 1..Len(vectors) |->
             [file_id |-> vectors[k].file_id,
              chunk_index |-> vectors[k].chunk_index,
              page_number |-> Null,
              chunk_strategy |-> vectors[k].chunk_strategy,
              vector |-> vectors[k].vector,
              embedding_version |-> vectors[k].embedding_version]])

\* client.insert resolved: the collection's rows after it, and insert_cnt
insert(rows, data) == [rows |-> rows \o data, insert_cnt |-> Len(data)]

collectionMissingError ==
  Err(<<"Collection ", "VECTOR_COLLECTION_NAME",
        " does not exist. Please create it first.">>)

\* -------------------------------------------------------- processDocument
\* x || null for a number x
OrNull(x) == IF x = 0 THEN Null ELSE Some(x)

\* chunksToCreate of processDocument (stage 4)
chunksToCreate(fileId, textChunks) ==
  Array([k \in 1..Len(textChunks) |->
             [fileId |-> fileId,
              chunkIndex |-> textChunks[k].chunkIndex,
              text |-> textChunks[k].text,
              pageNumber |-> Null,
              chunkStrategy |-> textChunks[k].metadata.chunkStrategy,
              startChar |-> OrNull(textChunks[k].metadata.startChar),
              endChar |-> OrNull(textChunks[k].metadata.endChar)]])

\* A vector batch that lacks the last chunk.
vectorsToInsert_short(fileId, textChunks, embeddings) ==
  Array([k \in 1..(Len(textChunks) - 1) |->
             [file_id |-> fileId,
              chunk_index |-> textChunks[k].chunkIndex,
              chunk_strategy |-> textChunks[k].metadata.chunkStrategy,
              vector |-> Some(embeddings[k]),
              embedding_version |-> embedding_version]])

\* A vector batch that pairs the chunks with the vectors in reverse order.
vectorsToInsert_reversed(fileId, textChunks, embeddings) ==
  Array([k \in 1..Len(textChunks) |->
             [file_id |-> fileId,
              chunk_index |-> textChunks[k].chunkIndex,
              chunk_strategy |-> textChunks[k].metadata.chunkStrategy,
              vector |-> Some(embeddings[Len(embeddings) + 1 - k]),
              embedding_version |-> embedding_version]])

\* vectorsToInsert of processDocument (stage 5); embeddings[index] is
\* undefined (Null here) beyond the end of the array.
vectorsToInsert(fileId, textChunks, embeddings) ==
  Array([k \in 1..Len(textChunks) |->
             [file_id |-> fileId,
              chunk_index |-> textChunks[k].chunkIndex,
              chunk_strategy |-> textChunks[k].metadata.chunkStrategy,
              vector |-> IF k <= Len(embeddings) THEN Some(embeddings[k]) ELSE Null,
              embedding_version |-> embedding_version]])

emptyDocumentError ==
  Err(<<"No chunks created from document. Document may be empty.">>)

apiKeyError ==
  Err(<<"OpenAI API key is required. Set OPENAI_API_KEY environment variable.">>)

collectionNameError ==
  Err(<<"VECTOR_COLLECTION_NAME environment variable is not set">>)

\* --------------------------------------------------------------- the queue
\* findQueuesByStatus(status): the ids of the rows in that status, oldest
\* createdAt first.
RECURSIVE findFrom(_, _, _)
findFrom(q, status, i) ==
  IF i > NumItems THEN << >>
  ELSE (IF q[i].status = status THEN <<i>> ELSE << >>)
       \o findFrom(q, status, i + 1)

\* A query that also returns the rows in error (an automatic retry).
findQueuesByStatus_retry(q, status) ==
  findFrom(q, status, 1) \o findFrom(q, "error", 1)

\* A query ordered by createdAt descending: the newest row first.
findQueuesByStatus_desc(q, status) ==
  LET asc == findFrom(q, status, 1)
  IN Array([k \in 1..Len(asc) |-> asc[Len(asc) + 1 - k]])

findQueuesByStatus(q, status) == findFrom(q, status, 1)

\* A status write whose claim (the call with two arguments) is lost.
updateQueueStatus_noClaim(q, args) ==
  IF Len(args) = 2 THEN q
  ELSE [q EXCEPT ![args[1]] = [status |-> args[2], lastError |-> args[3]]]

\* updateQueueStatus(id, status, lastError?): args holds the call's
\* arguments; a call with two arguments passes lastError undefined, which
\* prisma's update leaves untouched.
updateQueueStatus(q, args) ==
  [q EXCEPT ![args[1]] =
     [@ EXCEPT !.status = args[2],
               !.lastError = IF Len(args) >= 3 THEN args[3] ELSE @]]

\* A catch that takes the message of whatever was thrown.
errorMessage_raw(processingError) == processingError.message

\* errorMessage of the catch in QueueWorker.processNextItem
errorMessage(processingError) ==
  IF processingError.isError THEN processingError.message
  ELSE <<"Unknown error occurred">>

\* ------------------------------------------------------------------- state
VARIABLES
  env,         \* process.env of the worker processes
  files,       \* File rows: files[i] belongs to queue row i
  queue,       \* Queue rows: status and lastError
  chunkTable,  \* Chunk rows
  milvus,      \* the vector collection: whether it exists, and its rows
  chunkCall,   \* a call of FixedSizeChunkingStrategy.chunk made on its own
  instances,   \* the worker processes that are deployed
  proc,        \* each worker process: "new", "running" or "exited"
  isRunning,   \* QueueWorker.isRunning of each worker
  loops,       \* the invocations of QueueWorker.poll and their positions
  runs,        \* per queue row, the processDocument calls made for it
  console      \* per worker, the last line its start() or stop() logged

vars == <<env, files, queue, chunkTable, milvus, instances, proc, isRunning,
          loops, runs, console, chunkCall>>

\* No call of the chunker outside the pipeline.
NoChunkCall ==
  [pc |-> "none", text |-> << >>,
   config |-> [chunkSize |-> 0, chunkOverlap |-> 0], result |-> Ok(<< >>)]

NoFile == [mimeType |-> "", url |-> ""]
NoQueue == [status |-> "none", lastError |-> Null]

\* A poll() invocation: the await it is suspended at and its locals.
NoLoop ==
  [worker |-> 0, pc |-> "none", item |-> 0, run |-> 0, textChunks |-> << >>,
   i |-> 0, allEmbeddings |-> << >>, totalPromptTokens |-> 0,
   totalTokens |-> 0, chunksCreated |-> 0, vectorsInserted |-> 0,
   errorMessage |-> << >>]

\* One processDocument call: the worker that made it, the status its claim
\* write replaced, how far it got (the pipeline's steps 1 to 5), the value
\* it threw, the value the catch of processNextItem received, and the
\* number of embeddings.create requests the provider received from it.
NoRun ==
  [worker |-> 0, from |-> "none", state |-> "running", stage |-> 0,
   error |-> Err(<< >>), caught |-> Null, requests |-> 0]
Run(w, from) == [NoRun EXCEPT !.worker = w, !.from = from]
Returned(run) == [run EXCEPT !.state = "returned"]
Threw(run, stage, e) ==
  [run EXCEPT !.state = "threw", !.stage = stage, !.error = e,
              !.caught = Some(e)]

\* Faults of the external collaborators (values a rejected promise carries).
PrismaFaults == { Err(<<"prisma: database error">>) }
MilvusFaults == { NonError(<<"milvus: status object">>) }
OpenAIFaults == { Err(<<"openai: request failed">>) }
ReadFaults == { Err(<<"ENOENT: no such file or directory">>) }

\* The state after deployment: the worker processes not yet started, the
\* stores empty, the collection provisioned or not.
InitWith(deployed, provisioned) ==
  /\ env \in Envs
  /\ files = [i \in ItemIds |-> NoFile]
  /\ queue = [i \in ItemIds |-> NoQueue]
  /\ chunkTable = << >>
  /\ milvus = [exists |-> provisioned, rows |-> << >>]
  /\ instances = deployed
  /\ proc = [w \in Workers |-> "new"]
  /\ isRunning = [w \in Workers |-> FALSE]
  /\ loops = [l \in LoopIds |-> NoLoop]
  /\ runs = [i \in ItemIds |-> << >>]
  /\ console = [w \in Workers |-> ""]
  /\ chunkCall = NoChunkCall

Init == InitWith({1}, FALSE)

\* ------------------------------------------------------------ collaborators
\* POST /api/upload: the File row and its Queue row in status queued. Rows
\* are created in id order (createdAt order); a long document, if one is
\* uploaded, is the last upload of an execution.
UploadOf(kinds) ==
  \E i \in ItemIds, f \in kinds :
    /\ queue[i].status = "none"
    /\ \A j \in ItemIds : j < i => queue[j].status # "none"
    /\ \A j \in ItemIds : files[j].url # "long.pdf"
    /\ files' = [files EXCEPT ![i] = f]
    /\ queue' = [queue EXCEPT ![i] = [status |-> "queued", lastError |-> Null]]
    /\ UNCHANGED <<env, chunkCall, chunkTable, milvus, instances, console, proc,
                   isRunning, loops, runs>>

Upload == UploadOf(FileKinds)

UploadPdf == UploadOf(PdfKinds)

\* The administrative step that provisions the collection.
createCollection ==
  /\ ~milvus.exists
  /\ env.VECTOR_COLLECTION_NAME
  /\ milvus' = [milvus EXCEPT !.exists = TRUE]
  /\ UNCHANGED <<env, chunkCall, files, queue, chunkTable, instances, console, proc,
                 isRunning, loops, runs>>

\* ------------------------------------------------------------- QueueWorker
FreeLoops == { l \in LoopIds : loops[l].pc \in {"none", "stopped", "exited"} }

\* A start() without the isRunning test: the flag is set and poll() is
\* entered on every call.
start_again(w) ==
  /\ { l \in LoopIds : loops[l].pc \in {"none", "stopped", "exited"} } # {}
  /\ isRunning' = [isRunning EXCEPT ![w] = TRUE]
  /\ console' = [console EXCEPT ![w] = IF isRunning[w]
                                       THEN "Worker is already running"
                                       ELSE "Starting worker"]
  /\ LET l == CHOOSE x \in LoopIds :
                loops[x].pc \in {"none", "stopped", "exited"}
     IN loops' = [loops EXCEPT ![l] =
                    [NoLoop EXCEPT !.worker = w,
                                   !.pc = "findQueuesByStatus"]]

\* QueueWorker.start(): when isRunning, a log line and nothing else; else the
\* flag is set and poll() runs up to its first await, the queued-items query.
start(w) ==
  IF isRunning[w]
  THEN /\ console' = [console EXCEPT ![w] = "Worker is already running"]
       /\ UNCHANGED <<isRunning, loops>>
  ELSE /\ FreeLoops # {}
       /\ isRunning' = [isRunning EXCEPT ![w] = TRUE]
       /\ console' = [console EXCEPT ![w] = "Starting worker"]
       /\ LET l == CHOOSE x \in FreeLoops : \A y \in FreeLoops : x <= y
          IN loops' = [loops EXCEPT ![l] =
                         [NoLoop EXCEPT !.worker = w,
                                        !.pc = "findQueuesByStatus"]]

\* QueueWorker.stop()
stop(w) ==
  /\ console' = [console EXCEPT ![w] = "Stopping worker..."]
  /\ isRunning' = [isRunning EXCEPT ![w] = FALSE]

\* worker.ts main(): the worker is created and started.
Main ==
  \E w \in instances :
    /\ proc[w] = "new"
    /\ proc' = [proc EXCEPT ![w] = "running"]
    /\ start(w)
    /\ UNCHANGED <<env, chunkCall, files, queue, chunkTable, milvus, instances, runs>>

\* worker.ts shutdown(): SIGINT or SIGTERM; stop() and process.exit(0).
Shutdown ==
  \E w \in instances :
    /\ proc[w] = "running"
    /\ proc' = [proc EXCEPT ![w] = "exited"]
    /\ stop(w)
    /\ loops' = [l \in LoopIds |->
                   IF loops[l].worker = w /\ loops[l].pc # "none"
                   THEN [NoLoop EXCEPT !.worker = w, !.pc = "exited"]
                   ELSE loops[l]]
    /\ UNCHANGED <<env, chunkCall, files, queue, chunkTable, milvus, instances, runs>>

\* A caller's start() on a worker that was already started once.
StartCall ==
  \E w \in instances :
    /\ proc[w] = "running"
    /\ start(w)
    /\ UNCHANGED <<env, chunkCall, files, queue, chunkTable, milvus, instances, proc,
                   runs>>

\* A caller's start() on a worker that is running.
StartAgain ==
  \E w \in instances :
    /\ proc[w] = "running"
    /\ isRunning[w]
    /\ start(w)
    /\ UNCHANGED <<env, chunkCall, files, queue, chunkTable, milvus, instances, proc,
                   runs>>

\* A caller's stop()
StopCall ==
  \E w \in instances :
    /\ proc[w] = "running"
    /\ stop(w)
    /\ UNCHANGED <<env, chunkCall, files, queue, chunkTable, milvus, instances, proc,
                   loops, runs>>

\* ---------------------------------------------- QueueWorker.processNextItem
SetLoop(l, r) == loops' = [loops EXCEPT ![l] = r]

\* poll(): processNextItem is over and the loop awaits sleep(pollInterval);
\* item and run name the processDocument call of this iteration, if any.
Sleeping(r, item, run) ==
  [NoLoop EXCEPT !.worker = r.worker, !.pc = "sleep", !.item = item,
                 !.run = run]

\* A processNextItem whose inner catch lets the exception leave poll(): the
\* polling loop ends.
Caught_ends(r, processingError) ==
  [NoLoop EXCEPT !.worker = r.worker, !.pc = "stopped"]

\* A catch that would hand on the vectors gathered before the throw.
Caught_keeps(r, processingError) ==
  [NoLoop EXCEPT !.worker = r.worker, !.pc = "updateError", !.item = r.item,
                 !.run = r.run,
                 !.errorMessage = errorMessage(processingError),
                 !.allEmbeddings = r.allEmbeddings]

\* The inner catch of processNextItem: the message is taken from the thrown
\* value and the error status write is issued.
Caught(r, processingError) ==
  [NoLoop EXCEPT !.worker = r.worker, !.pc = "updateError", !.item = r.item,
                 !.run = r.run,
                 !.errorMessage = errorMessage(processingError)]

\* processDocument throws e in the given step; the catch of processNextItem
\* receives it.
Fail(l, stage, e) ==
  /\ SetLoop(l, Caught(loops[l], e))
  /\ runs' = [runs EXCEPT ![loops[l].item][loops[l].run] = Threw(@, stage, e)]

\* findQueuesByStatus('queued') resolves: no item, or the first one is taken
\* and the claim write is issued.
FindResolve ==
  \E l \in LoopIds :
    /\ loops[l].pc = "findQueuesByStatus"
    /\ LET queuedItems == findQueuesByStatus(queue, "queued")
       IN IF Len(queuedItems) = 0
          THEN SetLoop(l, Sleeping(loops[l], 0, 0))
          ELSE SetLoop(l, [loops[l] EXCEPT !.pc = "updateProcessing",
                                           !.item = queuedItems[1]])
    /\ UNCHANGED <<env, chunkCall, files, queue, chunkTable, milvus, instances, console,
                   proc, isRunning, runs>>

\* findQueuesByStatus rejects: the outer catch logs it.
FindReject ==
  \E l \in LoopIds :
    /\ loops[l].pc = "findQueuesByStatus"
    /\ SetLoop(l, Sleeping(loops[l], 0, 0))
    /\ UNCHANGED <<env, chunkCall, files, queue, chunkTable, milvus, instances, console,
                   proc, isRunning, runs>>

\* updateQueueStatus(item.id, 'processing') resolves; processDocument is
\* called and runs to loader.load, or throws from getLoader.
ClaimResolve ==
  \E l \in LoopIds :
    /\ loops[l].pc = "updateProcessing"
    /\ LET r == loops[l]
           run == Len(runs[r.item]) + 1
           call == Run(r.worker, queue[r.item].status)
           loader == getLoader(files[r.item].mimeType)
       IN /\ queue' = updateQueueStatus(queue, <<r.item, "processing">>)
          /\ IF loader.ok
             THEN /\ SetLoop(l, [r EXCEPT !.pc = "load", !.run = run])
                  /\ runs' = [runs EXCEPT ![r.item] = Append(@, call)]
             ELSE /\ SetLoop(l, Caught([r EXCEPT !.run = run], loader.error))
                  /\ runs' = [runs EXCEPT ![r.item] =
                                Append(@, Threw(call, 1, loader.error))]
    /\ UNCHANGED <<env, chunkCall, files, chunkTable, milvus, instances, console, proc,
                   isRunning>>

\* The claim write rejects: the outer catch logs it, the item stays as it is.
ClaimReject ==
  \E l \in LoopIds :
    /\ loops[l].pc = "updateProcessing"
    /\ SetLoop(l, Sleeping(loops[l], 0, 0))
    /\ UNCHANGED <<env, chunkCall, files, queue, chunkTable, milvus, instances, console,
                   proc, isRunning, runs>>

\* processDocument between loader.load and the first embeddings request:
\* strategy lookup, chunking, the empty-document test (step 2), the embedding
\* service's construction (step 3).
prepare(text) ==
  LET strategy == getStrategy(env.DEFAULT_CHUNKING_STRATEGY)
      textChunks == chunk(text, [chunkSize |-> env.CHUNK_SIZE,
                                 chunkOverlap |-> env.CHUNK_OVERLAP])
  IN IF ~strategy.ok THEN [strategy EXCEPT !.error = <<2, @>>]
     ELSE IF ~textChunks.ok THEN [textChunks EXCEPT !.error = <<2, @>>]
     ELSE IF Len(textChunks.value) = 0 THEN Throw(<<2, emptyDocumentError>>)
     ELSE IF ~env.OPENAI_API_KEY THEN Throw(<<3, apiKeyError>>)
     ELSE textChunks

\* embedBatch(texts) is called by the loop r with the texts of textChunks and
\* runs to its first await: the counters start at zero; with no text the for
\* loop is not entered and the call returns at once (createManyChunks is
\* next), else the first embeddings.create request is sent.
embedBatchCall(r, textChunks) ==
  LET entered == [r EXCEPT !.textChunks = textChunks, !.i = 0,
                           !.allEmbeddings = << >>,
                           !.totalPromptTokens = 0, !.totalTokens = 0]
  IN IF 0 < Len(textChunks)
     THEN [entered EXCEPT !.pc = "embeddings.create"]
     ELSE [entered EXCEPT !.pc = "createManyChunks"]

\* The run has sent one more embeddings.create request.
Requested(run) == [run EXCEPT !.requests = @ + 1]

\* loader.load resolves with the document's text.
LoadResolve ==
  \E l \in LoopIds :
    /\ loops[l].pc = "load"
    /\ LET r == loops[l]
           p == prepare(pdfParse(files[r.item].url))
       IN IF p.ok
          THEN /\ SetLoop(l, embedBatchCall(r, p.value))
               /\ runs' = [runs EXCEPT ![r.item][r.run] =
                             IF 0 < Len(p.value) THEN Requested(@) ELSE @]
          ELSE Fail(l, p.error[1], p.error[2])
    /\ UNCHANGED <<env, chunkCall, files, queue, chunkTable, milvus, instances, console,
                   proc, isRunning>>

\* loader.load rejects (unreadable or corrupt file).
LoadReject ==
  \E l \in LoopIds, e \in ReadFaults :
    /\ loops[l].pc = "load"
    /\ Fail(l, 1, loadError(e))
    /\ UNCHANGED <<env, chunkCall, files, queue, chunkTable, milvus, instances, console,
                   proc, isRunning>>

\* texts of processDocument (step 3)
textsOf(textChunks) ==
  Array([k \in 1..Len(textChunks) |-> textChunks[k].text])

\* One embeddings.create request of embedBatch resolves: its embeddings are
\* appended in index order; the next request is sent, or embedBatch returns
\* and createManyChunks is issued.
EmbedResolve ==
  \E l \in LoopIds :
    /\ loops[l].pc = "embeddings.create"
    /\ LET r == loops[l]
           texts == textsOf(r.textChunks)
           batch == slice(texts, r.i, r.i + batchSize)
           usage == Usage(batch)
       IN \E order \in Orders(Len(batch)) :
            LET all == r.allEmbeddings \o
                         batchEmbeddings(ResponseData(batch, order))
                done == [r EXCEPT !.allEmbeddings = all,
                                  !.totalPromptTokens = @ + usage.prompt_tokens,
                                  !.totalTokens = @ + usage.total_tokens]
            IN IF r.i + batchSize < Len(texts)
               THEN /\ SetLoop(l, [done EXCEPT !.i = r.i + batchSize])
                    /\ runs' = [runs EXCEPT ![r.item][r.run] = Requested(@)]
               ELSE /\ SetLoop(l, [done EXCEPT !.pc = "createManyChunks",
                                               !.i = 0])
                    /\ UNCHANGED runs
    /\ UNCHANGED <<env, chunkCall, files, queue, chunkTable, milvus, instances, console,
                   proc, isRunning>>

\* An embeddings.create request rejects: embedBatch throws, nothing is kept.
EmbedReject ==
  \E l \in LoopIds, e \in OpenAIFaults :
    /\ loops[l].pc = "embeddings.create"
    /\ Fail(l, 3, embedBatchError(e))
    /\ UNCHANGED <<env, chunkCall, files, queue, chunkTable, milvus, instances, console,
                   proc, isRunning>>

\* createManyChunks resolves; insertVectors is called and runs to
\* collectionExists, or throws from getCollectionName.
StoreResolve ==
  \E l \in LoopIds :
    /\ loops[l].pc = "createManyChunks"
    /\ LET r == loops[l]
           res == createManyChunks(chunkTable,
                                   chunksToCreate(r.item, r.textChunks))
       IN /\ chunkTable' = res.table
          /\ IF env.VECTOR_COLLECTION_NAME
             THEN /\ SetLoop(l, [r EXCEPT !.pc = "collectionExists",
                                          !.chunksCreated = res.count])
                  /\ UNCHANGED runs
             ELSE Fail(l, 5, collectionNameError)
    /\ UNCHANGED <<env, chunkCall, files, queue, milvus, instances, console, proc,
                   isRunning>>

\* createManyChunks rejects: the batch insert wrote nothing.
StoreReject ==
  \E l \in LoopIds, e \in PrismaFaults :
    /\ loops[l].pc = "createManyChunks"
    /\ Fail(l, 4, e)
    /\ UNCHANGED <<env, chunkCall, files, queue, chunkTable, milvus, instances, console,
                   proc, isRunning>>

\* collectionExists resolves: insertVectors throws when the collection is
\* missing, else client.insert is issued.
ExistsResolve ==
  \E l \in LoopIds :
    /\ loops[l].pc = "collectionExists"
    /\ IF milvus.exists
       THEN /\ SetLoop(l, [loops[l] EXCEPT !.pc = "insert"])
            /\ UNCHANGED runs
       ELSE Fail(l, 5, collectionMissingError)
    /\ UNCHANGED <<env, chunkCall, files, queue, chunkTable, milvus, instances, console,
                   proc, isRunning>>

\* collectionExists rejects.
ExistsReject ==
  \E l \in LoopIds, e \in MilvusFaults :
    /\ loops[l].pc = "collectionExists"
    /\ Fail(l, 5, e)
    /\ UNCHANGED <<env, chunkCall, files, queue, chunkTable, milvus, instances, console,
                   proc, isRunning>>

\* client.insert resolves: processDocument returns its result and the
\* success status write is issued. The collection's vector field has
\* VECTOR_DIMENSION components; an insert of vectors of another length does
\* not resolve (it rejects, see InsertReject).
InsertResolve ==
  \E l \in LoopIds :
    /\ loops[l].pc = "insert"
    /\ getModelDimension(env.OPENAI_EMBEDDING_MODEL) = env.VECTOR_DIMENSION
    /\ LET r == loops[l]
           res == insert(milvus.rows,
                         milvusData(vectorsToInsert(r.item, r.textChunks,
                                                    r.allEmbeddings)))
       IN /\ milvus' = [milvus EXCEPT !.rows = res.rows]
          /\ SetLoop(l, [r EXCEPT !.pc = "updateSuccess",
                                   !.textChunks = << >>,
                                   !.allEmbeddings = << >>,
                                   !.totalPromptTokens = 0,
                                   !.totalTokens = 0,
                                   !.vectorsInserted = res.insert_cnt])
          /\ runs' = [runs EXCEPT ![r.item][r.run] = Returned(@)]
    /\ UNCHANGED <<env, chunkCall, files, queue, chunkTable, instances, console, proc,
                   isRunning>>

\* client.insert rejects: nothing was inserted.
InsertReject ==
  \E l \in LoopIds, e \in MilvusFaults :
    /\ loops[l].pc = "insert"
    /\ Fail(l, 5, e)
    /\ UNCHANGED <<env, chunkCall, files, queue, chunkTable, milvus, instances, console,
                   proc, isRunning>>

\* updateQueueStatus(item.id, 'success', null) resolves.
SuccessResolve ==
  \E l \in LoopIds :
    /\ loops[l].pc = "updateSuccess"
    /\ queue' = updateQueueStatus(queue, <<loops[l].item, "success", Null>>)
    /\ SetLoop(l, Sleeping(loops[l], loops[l].item, loops[l].run))
    /\ UNCHANGED <<env, chunkCall, files, chunkTable, milvus, instances, console, proc,
                   isRunning, runs>>

\* The success status write rejects inside the try block: the inner catch
\* takes it as processingError and issues the error status write.
SuccessReject ==
  \E l \in LoopIds, e \in PrismaFaults :
    /\ loops[l].pc = "updateSuccess"
    /\ SetLoop(l, Caught(loops[l], e))
    /\ runs' = [runs EXCEPT ![loops[l].item][loops[l].run].caught = Some(e)]
    /\ UNCHANGED <<env, chunkCall, files, queue, chunkTable, milvus, instances, console,
                   proc, isRunning>>

\* updateQueueStatus(item.id, 'error', errorMessage) resolves.
ErrorResolve ==
  \E l \in LoopIds :
    /\ loops[l].pc = "updateError"
    /\ queue' = updateQueueStatus(queue, <<loops[l].item, "error",
                                           Some(loops[l].errorMessage)>>)
    /\ SetLoop(l, Sleeping(loops[l], loops[l].item, loops[l].run))
    /\ UNCHANGED <<env, chunkCall, files, chunkTable, milvus, instances, console, proc,
                   isRunning, runs>>

\* The error status write rejects: the outer catch logs it.
ErrorReject ==
  \E l \in LoopIds :
    /\ loops[l].pc = "updateError"
    /\ SetLoop(l, Sleeping(loops[l], loops[l].item, loops[l].run))
    /\ UNCHANGED <<env, chunkCall, files, queue, chunkTable, milvus, instances, console,
                   proc, isRunning, runs>>

\* A poll() whose loop does not test isRunning: every sleep is followed by
\* the next query.
Wake_always ==
  \E l \in LoopIds :
    /\ loops[l].pc = "sleep"
    /\ SetLoop(l, [NoLoop EXCEPT !.worker = loops[l].worker,
                                 !.pc = "findQueuesByStatus"])
    /\ UNCHANGED <<env, chunkCall, files, queue, chunkTable, milvus, instances, console,
                   proc, isRunning, runs>>

\* sleep(pollInterval) is over: the while condition of poll() is tested.
Wake ==
  \E l \in LoopIds :
    /\ loops[l].pc = "sleep"
    /\ IF isRunning[loops[l].worker]
       THEN SetLoop(l, [NoLoop EXCEPT !.worker = loops[l].worker,
                                      !.pc = "findQueuesByStatus"])
       ELSE SetLoop(l, [NoLoop EXCEPT !.worker = loops[l].worker,
                                      !.pc = "stopped"])
    /\ UNCHANGED <<env, chunkCall, files, queue, chunkTable, milvus, instances, console,
                   proc, isRunning, runs>>

\* The awaited call of a polling loop resolves.
Resolve ==
  \/ FindResolve \/ ClaimResolve \/ LoadResolve \/ EmbedResolve
  \/ StoreResolve \/ ExistsResolve \/ InsertResolve \/ SuccessResolve
  \/ ErrorResolve \/ Wake

\* The awaited call of a polling loop rejects.
Reject ==
  \/ FindReject \/ ClaimReject \/ LoadReject \/ EmbedReject \/ StoreReject
  \/ ExistsReject \/ InsertReject \/ SuccessReject \/ ErrorReject

\* ---------------------------------------------------------- specifications
\* One worker process, as worker.ts runs it.
Next == Upload \/ createCollection \/ Main \/ Shutdown \/ Resolve \/ Reject

Spec == Init /\ [][Next]_vars

\* The configuration under which every pipeline step can succeed.
ValidEnv == MkEnv(1, 0, "fixed-size", TRUE, TRUE)

\* Two worker processes polling the same queue: pdf uploads, the valid
\* configuration, the collection provisioned; of the external calls only
\* the vector insert rejects.
InitTwo == InitWith({1, 2}, TRUE) /\ env = ValidEnv

NextTwo == UploadPdf \/ Main \/ Resolve \/ InsertReject

SpecTwo == InitTwo /\ [][NextTwo]_vars

\* One worker whose owner calls start() and stop() at any time: pdf uploads,
\* the valid configuration, every external call resolves.
InitRestart == Init /\ env = ValidEnv

NextRestart ==
  UploadPdf \/ createCollection \/ Main \/ StartCall \/ StopCall \/ Resolve

SpecRestart == InitRestart /\ [][NextRestart]_vars

\* One worker whose owner calls start() while it runs and stop() at any
\* time, and never start() after stop(): pdf uploads, the valid
\* configuration; of the external calls only the vector insert rejects.
\* Every awaited call settles and every sleep ends (the event loop runs the
\* timers and callbacks that are due).
NextStop ==
  UploadPdf \/ createCollection \/ Main \/ StartAgain \/ StopCall \/ Resolve
    \/ InsertReject

SpecStop == InitRestart /\ [][NextStop]_vars /\ WF_vars(Resolve)

\* embedBatch alone: the processDocument call of a claimed item has called
\* embedBatch with the texts of n chunks, 0 <= n <= MaxTexts; every request
\* resolves, with the response's items in any of the orders, or rejects.
textChunksOf(n) ==
  chunk(Array([k \in 1..n |-> k]), [chunkSize |-> 1, chunkOverlap |-> 0]).value

InitEmbed ==
  /\ env = ValidEnv
  /\ files = [i \in ItemIds |->
               IF i = 1 THEN [mimeType |-> "application/pdf",
                              url |-> "texts.pdf"]
               ELSE NoFile]
  /\ queue = [i \in ItemIds |->
               IF i = 1 THEN [status |-> "processing", lastError |-> Null]
               ELSE NoQueue]
  /\ chunkTable = << >>
  /\ milvus = [exists |-> TRUE, rows |-> << >>]
  /\ instances = {1}
  /\ proc = [w \in Workers |-> IF w = 1 THEN "running" ELSE "new"]
  /\ isRunning = [w \in Workers |-> w = 1]
  /\ console = [w \in Workers |-> IF w = 1 THEN "Starting worker" ELSE ""]
  /\ chunkCall = NoChunkCall
  /\ \E n \in 0..MaxTexts :
       LET caller == [NoLoop EXCEPT !.worker = 1, !.item = 1, !.run = 1]
           call == Run(1, "queued")
       IN /\ loops = [l \in LoopIds |->
                        IF l = 1 THEN embedBatchCall(caller, textChunksOf(n))
                        ELSE NoLoop]
          /\ runs = [i \in ItemIds |->
                       IF i = 1
                       THEN <<IF 0 < n THEN Requested(call) ELSE call>>
                       ELSE << >>]

NextEmbed == EmbedResolve \/ EmbedReject

SpecEmbed == InitEmbed /\ [][NextEmbed]_vars

\* -------------------------------------------------------------- properties
\* The number of windows the chunker produces for item i's document.
Windows(i) ==
  LET c == chunk(pdfParse(files[i].url),
                 [chunkSize |-> env.CHUNK_SIZE,
                  chunkOverlap |-> env.CHUNK_OVERLAP])
  IN IF c.ok THEN Len(c.value) ELSE 0

\* The chunk rows and the vector entries stored for item i's file.
ChunkRows(i) ==
  Cardinality({ k \in 1..Len(chunkTable) : chunkTable[k].fileId = i })

VectorRows(i) ==
  Cardinality({ k \in 1..Len(milvus.rows) : milvus.rows[k].file_id = i })

\* The loop has claimed an item and has not yet issued its last status write
\* for it: it is inside processDocument.
InProcessDocument(l) ==
  loops[l].pc \in {"load", "embeddings.create", "createManyChunks",
                   "collectionExists", "insert"}

\* The loop has claimed an item whose final status write has not completed.
InFlight(l) ==
  InProcessDocument(l) \/ loops[l].pc \in {"updateSuccess", "updateError"}

\* The iteration of loop l is over and its processDocument call threw in
\* one of the given steps.
FailedIn(l, stages) ==
  /\ loops[l].pc = "sleep"
  /\ loops[l].run # 0
  /\ runs[loops[l].item][loops[l].run].state = "threw"
  /\ runs[loops[l].item][loops[l].run].stage \in stages

StatusSteps ==
  { <<"none", "queued">>, <<"queued", "processing">>,
    <<"processing", "success">>, <<"processing", "error">> }

\* C1: with one worker and one polling loop, a queue row's status changes
\* only queued -> processing, processing -> success or processing -> error
\* (after its creation in queued), so no row returns to queued and success
\* and error are final; processDocument is called at most once per row.
C1_Lifecycle ==
  /\ [][\A i \in ItemIds :
          queue'[i].status # queue[i].status
            => <<queue[i].status, queue'[i].status>> \in StatusSteps]_vars
  /\ [](\A i \in ItemIds : Len(runs[i]) <= 1)

\* One row has ended in success and another in error.
C1_Witness ==
  \E i, j \in ItemIds :
    /\ queue[i].status = "success" /\ Len(runs[i]) = 1
    /\ queue[j].status = "error" /\ Len(runs[j]) = 1

\* C2: with one worker, every row in success has as many vector entries as
\* chunk rows for its file, both equal to the number of windows.
C2_CountsAgree ==
  \A i \in ItemIds :
    queue[i].status = "success"
      => /\ VectorRows(i) = ChunkRows(i)
         /\ ChunkRows(i) = Windows(i)

\* A document of more than one embedding batch has ended in success.
C2_Witness ==
  \E i \in ItemIds :
    /\ queue[i].status = "success"
    /\ ChunkRows(i) > batchSize
    /\ VectorRows(i) > batchSize

\* C3: one QueueWorker never has two items in flight: no two of its polling
\* loops hold different claimed items whose final status write is pending.
C3_OneItemAtATime ==
  \A l1, l2 \in LoopIds :
    ~ /\ l1 # l2
      /\ loops[l1].worker = loops[l2].worker
      /\ InFlight(l1) /\ InFlight(l2)
      /\ loops[l1].item # loops[l2].item

\* C4: with two workers a row may be processed twice, and only through the
\* stale read: the first claim write of a row replaces queued, every later
\* one replaces another status (the row was read as queued before an earlier
\* claim landed), and no worker processes the same row twice.
C4_StaleClaim ==
  \A i \in ItemIds :
    \A k \in 1..Len(runs[i]) :
      /\ (runs[i][k].from = "queued") <=> (k = 1)
      /\ \A j \in 1..Len(runs[i]) :
           j # k => runs[i][j].worker # runs[i][k].worker

\* Both workers read the same row as queued, both wrote it to processing,
\* and both are inside processDocument for it.
C4_Witness ==
  \E l1, l2 \in LoopIds :
    /\ loops[l1].worker # loops[l2].worker
    /\ loops[l1].item = loops[l2].item
    /\ InProcessDocument(l1) /\ InProcessDocument(l2)
    /\ runs[loops[l2].item][loops[l2].run].from = "processing"

\* C5: when processDocument fails in loader lookup, load, chunking or
\* embedBatch (steps 1 to 3), the iteration ends with no chunk row and no
\* vector entry of the file stored and with the row in error.
C5_EarlyFailure ==
  \A l \in LoopIds :
    FailedIn(l, {1, 2, 3})
      => /\ ChunkRows(loops[l].item) = 0
         /\ VectorRows(loops[l].item) = 0
         /\ queue[loops[l].item].status = "error"

\* C6: when insertVectors fails after createManyChunks succeeded (step 5),
\* the iteration ends with the chunk rows of step 4 still stored, no vector
\* entry of the file, and the row in error.
C6_VectorFailure ==
  \A l \in LoopIds :
    FailedIn(l, {5})
      => /\ ChunkRows(loops[l].item) = Windows(loops[l].item)
         /\ VectorRows(loops[l].item) = 0
         /\ queue[loops[l].item].status = "error"

\* C7: with one worker, a row's lastError is non-null exactly when its
\* status is error, and it then is the message of the value the catch of
\* processNextItem received ('Unknown error occurred' for a non-Error).
C7_LastError ==
  \A i \in ItemIds :
    /\ (queue[i].lastError # Null) <=> (queue[i].status = "error")
    /\ queue[i].status = "error"
         => \E k \in 1..Len(runs[i]) :
              LET c == runs[i][k].caught
              IN /\ c # Null
                 /\ queue[i].lastError =
                      Some(IF c[1].isError THEN c[1].message
                           ELSE <<"Unknown error occurred">>)

\* A row is in error after a value that is not an Error was thrown.
C7_Witness ==
  \E i \in ItemIds :
    /\ queue[i].status = "error"
    /\ queue[i].lastError = Some(<<"Unknown error occurred">>)
    /\ ~runs[i][1].error.isError

\* C8: a row whose processDocument call returned is never in error.
C8_ReturnedNeverError ==
  \A i \in ItemIds :
    \A k \in 1..Len(runs[i]) :
      runs[i][k].state = "returned" => queue[i].status # "error"

\* C9 as stated: every processDocument call that returns reports
\* chunksCreated = vectorsInserted = the number of windows.
C9_CountsEqualWindows ==
  \A l \in LoopIds :
    loops[l].pc = "updateSuccess"
      => /\ loops[l].chunksCreated = Windows(loops[l].item)
         /\ loops[l].vectorsInserted = Windows(loops[l].item)

\* C9: every processDocument call that returns reports vectorsInserted = the
\* number of windows and chunksCreated = the number of windows whose
\* (fileId, chunkIndex) was not in the chunk store when createManyChunks
\* ran: the windows less the rows the file already had.
C9_CountsNewRows ==
  /\ [][\A l \in LoopIds :
          loops[l].pc = "createManyChunks" /\ loops'[l].pc = "collectionExists"
            => loops'[l].chunksCreated =
                 Windows(loops[l].item) - ChunkRows(loops[l].item)]_vars
  /\ [](\A l \in LoopIds :
          loops[l].pc = "updateSuccess"
            => /\ loops[l].vectorsInserted = Windows(loops[l].item)
               /\ loops[l].chunksCreated <= Windows(loops[l].item))

\* A call returned that created no chunk row and inserted every vector.
C9_Witness ==
  \E l \in LoopIds :
    /\ loops[l].pc = "updateSuccess"
    /\ loops[l].chunksCreated = 0
    /\ loops[l].vectorsInserted = Windows(loops[l].item)
    /\ loops[l].vectorsInserted > 0

\* C10: the Chunk table never holds two rows with the same
\* (fileId, chunkIndex), and a createManyChunks call whose pairs all exist
\* resolves, inserts no row, returns 0 and leaves the table as it was.
C10_Idempotent ==
  /\ [](Cardinality(ChunkKeys(chunkTable)) = Len(chunkTable))
  /\ [][\A l \in LoopIds :
          /\ loops[l].pc = "createManyChunks"
          /\ loops'[l].pc # "createManyChunks"
          /\ ChunkRows(loops[l].item) = Len(loops[l].textChunks)
          => /\ chunkTable' = chunkTable
             /\ loops'[l].pc = "collectionExists"
             /\ loops'[l].chunksCreated = 0]_vars

\* createManyChunks was called with pairs that all existed, and resolved.
C10_Witness ==
  \E l \in LoopIds :
    /\ loops[l].pc = "collectionExists"
    /\ loops[l].chunksCreated = 0
    /\ ChunkRows(loops[l].item) = Len(loops[l].textChunks)
    /\ Len(loops[l].textChunks) > 0

\* The polling loop l is running: poll() has been entered and has not left
\* its while loop.
Polling(l) == loops[l].pc \notin {"none", "stopped", "exited"}

\* C11: a rejected call of a polling iteration (the query, the claim write,
\* a call of processDocument, a final status write) never ends the loop: the
\* loop goes to the error status write or to the sleep, a loop whose sleep
\* is over while isRunning is true polls again, a loop polls again only
\* after its sleep, and an item whose processDocument call threw is not left
\* in queued, so that the next query returns the items queued behind it.
C11_LoopSurvives ==
  /\ [][Reject => \A l \in LoopIds :
                    loops'[l] # loops[l]
                      => /\ loops'[l].pc \in {"updateError", "sleep"}
                         /\ loops'[l].worker = loops[l].worker]_vars
  /\ [][\A l \in LoopIds :
          /\ (Polling(l) /\ isRunning'[loops[l].worker]) => Polling(l)'
          /\ (loops[l].pc = "sleep" /\ loops'[l].pc # "sleep"
                /\ isRunning[loops[l].worker] /\ isRunning'[loops[l].worker])
               => loops'[l].pc = "findQueuesByStatus"
          /\ (loops[l].pc \notin {"sleep", "findQueuesByStatus"}
                /\ loops'[l].pc = "findQueuesByStatus")
               => ~Polling(l)]_vars
  /\ [](\A l \in LoopIds :
          FailedIn(l, 1..5) => queue[loops[l].item].status # "queued")

\* The first item's processDocument call threw, and the same polling loop
\* has since claimed the item queued behind it and processed it to success.
C11_Witness ==
  \E l \in LoopIds :
    /\ Polling(l)
    /\ loops[l].item = 2
    /\ queue[2].status = "success"
    /\ Len(runs[1]) = 1
    /\ runs[1][1].state = "threw"
    /\ runs[1][1].worker = loops[l].worker

\* stop() has been called on the started worker w.
Stopped(w) == proc[w] = "running" /\ ~isRunning[w]

C13_GracefulShutdown ==
  \A w \in instances :
    proc[w] = "exited"
      => \A i \in ItemIds : queue[i].status # "processing"

\* C14: each poll claims the oldest queued item: the item a polling loop
\* takes from its query is in queued and no row created earlier is in queued
\* when the query runs, and a row is written to processing only by a loop
\* that took that row from its query.
C14_OldestFirst ==
  /\ [][\A l \in LoopIds :
          /\ loops[l].pc = "findQueuesByStatus"
          /\ loops'[l].pc = "updateProcessing"
          => /\ queue[loops'[l].item].status = "queued"
             /\ \A j \in ItemIds :
                  j < loops'[l].item => queue[j].status # "queued"]_vars
  /\ [][\A i \in ItemIds :
          queue[i].status # "processing" /\ queue'[i].status = "processing"
            => \E l \in LoopIds :
                 /\ loops[l].pc = "updateProcessing"
                 /\ loops[l].item = i
                 /\ loops'[l].pc # "updateProcessing"]_vars

\* The loop has written the older of two rows to processing; the newer one
\* waits in queued and has not been claimed.
C14_Witness ==
  \E l \in LoopIds :
    /\ loops[l].pc = "load"
    /\ loops[l].item = 1
    /\ queue[1].status = "processing"
    /\ queue[2].status = "queued"
    /\ Len(runs[2]) = 0

\* C15: start() on a worker whose isRunning flag is true is a no-op: the
\* step in which it logs its line changes nothing else (the flag, the
\* polling loops, the queue and the stores stay as they are), and the worker
\* never has more than one polling loop.
C15_StartIsNoOp ==
  /\ [][\A w \in instances :
          /\ isRunning[w]
          /\ console'[w] # console[w]
          /\ console'[w] # "Stopping worker..."
          => /\ console'[w] = "Worker is already running"
             /\ UNCHANGED <<env, chunkCall, files, queue, chunkTable, milvus, instances,
                            proc, isRunning, loops, runs>>]_vars
  /\ [](\A w \in instances :
          Cardinality({ l \in LoopIds :
                          Polling(l) /\ loops[l].worker = w }) <= 1)

\* start() was called on the running worker while an item was in flight;
\* the worker still runs, with its one polling loop inside processDocument.
C15_Witness ==
  \E w \in instances, l \in LoopIds :
    /\ console[w] = "Worker is already running"
    /\ isRunning[w]
    /\ loops[l].worker = w
    /\ InProcessDocument(l)

\* The configured strategy is registered and the configured chunk size and
\* overlap pass the chunker's validation.
ChunkingOk ==
  /\ getStrategy(env.DEFAULT_CHUNKING_STRATEGY).ok
  /\ chunk(<<1>>, [chunkSize |-> env.CHUNK_SIZE,
                   chunkOverlap |-> env.CHUNK_OVERLAP]).ok

\* The polling loop l is in (or has returned from) a call that follows the
\* empty-document test of processDocument: embedBatch, createManyChunks or
\* insertVectors.
PastChunking(l) ==
  loops[l].pc \in {"embeddings.create", "createManyChunks",
                   "collectionExists", "insert", "updateSuccess"}

\* C16: for a document whose loaded text is empty or whitespace-only the
\* chunker returns zero chunks; the processDocument call that loaded it
\* throws the empty-document error in step 2, embedBatch, createManyChunks
\* and insertVectors are not called for it, nothing of the file is stored,
\* and the iteration ends with the row in error.
C16_EmptyDocument ==
  ChunkingOk
    => /\ chunk(<< >>, [chunkSize |-> env.CHUNK_SIZE,
                        chunkOverlap |-> env.CHUNK_OVERLAP]) = Ok(<< >>)
       /\ \A i \in ItemIds :
            files[i].url = "blank.pdf"
              => /\ Windows(i) = 0
                 /\ ChunkRows(i) = 0 /\ VectorRows(i) = 0
                 /\ \A l \in LoopIds :
                      loops[l].item = i => ~PastChunking(l)
                 /\ \A k \in 1..Len(runs[i]) :
                      /\ runs[i][k].state # "returned"
                      /\ (runs[i][k].state = "threw" /\ runs[i][k].stage # 1)
                           => /\ runs[i][k].stage = 2
                              /\ runs[i][k].error = emptyDocumentError
                 /\ \A l \in LoopIds :
                      (loops[l].item = i /\ FailedIn(l, {2}))
                        => queue[i].status = "error"

\* The message (a sequence of string parts) contains the given string.
Contains(message, part) == \E k \in 1..Len(message) : message[k] = part

\* C17: for a file whose MIME type no registered loader supports, getLoader
\* throws an error whose message names that MIME type and the supported
\* types; no loader's load is called for the item (the call throws in
\* step 1 with that error and the loop never awaits load or a later call);
\* and the iteration ends with the row in error and a lastError that
\* contains the MIME type.
C17_UnsupportedType ==
  \A i \in ItemIds :
    (queue[i].status # "none" /\ ~supports(files[i].mimeType))
      => LET loader == getLoader(files[i].mimeType)
         IN /\ ~loader.ok
            /\ loader.error.isError
            /\ Contains(loader.error.message, files[i].mimeType)
            /\ \A t \in supportedMimeTypes :
                 Contains(loader.error.message, t)
            /\ \A l \in LoopIds :
                 loops[l].item = i
                   => ~InProcessDocument(l) /\ ~PastChunking(l)
            /\ \A k \in 1..Len(runs[i]) :
                 /\ runs[i][k].state = "threw"
                 /\ runs[i][k].stage = 1
                 /\ runs[i][k].error = loader.error
            /\ \A l \in LoopIds :
                 (loops[l].item = i /\ FailedIn(l, {1}))
                   => /\ queue[i].status = "error"
                      /\ queue[i].lastError # Null
                      /\ Contains(queue[i].lastError[1], files[i].mimeType)

\* The configured chunk size and overlap fail the chunker's validation
\* (chunkSize <= 0, or chunkOverlap outside [0, chunkSize)).
InvalidChunkConfig ==
  ~chunk(<<1>>, [chunkSize |-> env.CHUNK_SIZE,
                 chunkOverlap |-> env.CHUNK_OVERLAP]).ok

\* C18: under an invalid chunking configuration the error is raised before
\* any I/O: for no item is the document load, embedBatch, createManyChunks or
\* insertVectors invoked, and nothing is stored.
C18_ConfigBeforeIO ==
  InvalidChunkConfig
    => /\ \A l \in LoopIds : ~InProcessDocument(l)
       /\ chunkTable = << >>
       /\ milvus.rows = << >>

\* The embedding model's dimension differs from the dimension the vector
\* collection is configured with.
DimensionMismatch ==
  getModelDimension(env.OPENAI_EMBEDDING_MODEL) # env.VECTOR_DIMENSION

\* C19: when the embedding model's dimension differs from the vector
\* store's configured dimension, the mismatch is found before the first
\* embedBatch or insertVectors call: no loop is in embedBatch or in a later
\* call of processDocument, and no chunk row or vector entry is written.
C19_DimensionChecked ==
  DimensionMismatch
    => /\ \A l \in LoopIds : ~PastChunking(l)
       /\ chunkTable = << >>
       /\ milvus.rows = << >>

\* C20: embedBatch over N texts with sub-batch cap batchSize (N below, equal
\* to or above the cap), the provider listing each response's items in any
\* order: after every request the collected vectors are the embeddings of
\* the texts sent so far, in the order of the texts, and the call returns
\* exactly N vectors, the i-th being the embedding of the i-th text.
C20_EmbedOrder ==
  \A l \in LoopIds :
    LET r == loops[l]
        texts == textsOf(r.textChunks)
    IN /\ r.pc = "embeddings.create"
            => /\ Len(r.allEmbeddings) = r.i
               /\ \A k \in 1..r.i : r.allEmbeddings[k] = Embedding(texts[k])
       /\ r.pc = "createManyChunks"
            => /\ Len(r.allEmbeddings) = Len(texts)
               /\ \A k \in 1..Len(texts) :
                    r.allEmbeddings[k] = Embedding(texts[k])

\* embedBatch has returned for more texts than one request holds.
C20_Witness ==
  \E l \in LoopIds :
    /\ loops[l].pc = "createManyChunks"
    /\ Len(loops[l].textChunks) = 2 * batchSize + 1
    /\ Len(loops[l].allEmbeddings) = 2 * batchSize + 1

\* The number of requests embedBatch makes for n texts: ceil(n / batchSize).
RequestsFor(n) == (n + batchSize - 1) \div batchSize

\* C21: embedBatch sends its texts in consecutive slices of at most
\* batchSize texts, one request at a time (the next request is sent in the
\* step in which the response to the previous one arrives), ceil(N / 100)
\* requests in all; it returns N vectors and usage counters that are the
\* sums of the responses' counters; for N = 0 it sends no request and
\* returns no vector.
C21_Batching ==
  /\ [][\A l \in LoopIds :
          /\ loops[l].pc = "embeddings.create"
          /\ loops'[l].pc \in {"embeddings.create", "createManyChunks"}
          /\ loops'[l] # loops[l]
          => LET r == loops[l]
                 texts == textsOf(r.textChunks)
                 n == Min(batchSize, Len(texts) - r.i)
             IN /\ n >= 1
                /\ loops'[l].allEmbeddings =
                     r.allEmbeddings \o
                       [k \in 1..n |-> Embedding(texts[r.i + k])]
                /\ loops'[l].totalPromptTokens = r.totalPromptTokens + n
                /\ loops'[l].totalTokens = r.totalTokens + n
                /\ IF r.i + n < Len(texts)
                   THEN /\ loops'[l].pc = "embeddings.create"
                        /\ loops'[l].i = r.i + batchSize
                        /\ runs'[r.item][r.run].requests =
                             runs[r.item][r.run].requests + 1
                   ELSE /\ loops'[l].pc = "createManyChunks"
                        /\ runs'[r.item][r.run] = runs[r.item][r.run]]_vars
  /\ [](\A l \in LoopIds :
          LET r == loops[l]
              N == Len(r.textChunks)
          IN /\ r.pc = "embeddings.create"
                  => /\ r.i < N /\ r.i % batchSize = 0
                     /\ runs[r.item][r.run].requests = r.i \div batchSize + 1
             /\ r.pc = "createManyChunks"
                  => /\ runs[r.item][r.run].requests = RequestsFor(N)
                     /\ Len(r.allEmbeddings) = N
                     /\ r.totalPromptTokens = N
                     /\ r.totalTokens = N)

\* embedBatch has returned for two full slices and one more text: three
\* requests were sent and the counters are the sums over three responses.
C21_Witness ==
  \E l \in LoopIds :
    /\ loops[l].pc = "createManyChunks"
    /\ Len(loops[l].textChunks) = 2 * batchSize + 1
    /\ runs[loops[l].item][loops[l].run].requests = 3
    /\ loops[l].totalTokens = 2 * batchSize + 1

\* C22: when an embeddings.create request of any sub-batch rejects,
\* embedBatch throws: the processDocument call ends in step 3 with the
\* embedBatch error, the vectors of the earlier sub-batches are dropped with
\* the call (the loop holds none and goes to the error status write), and
\* the run sends no further request.
C22_EmbedFailure ==
  /\ [][EmbedReject
          => \A l \in LoopIds :
               loops'[l] # loops[l]
                 => LET r == loops[l]
                    IN /\ loops'[l].pc = "updateError"
                       /\ loops'[l].allEmbeddings = << >>
                       /\ loops'[l].textChunks = << >>
                       /\ runs'[r.item][r.run].state = "threw"
                       /\ runs'[r.item][r.run].stage = 3
                       /\ runs'[r.item][r.run].error \in
                            { embedBatchError(e) : e \in OpenAIFaults }
                       /\ runs'[r.item][r.run].requests =
                            runs[r.item][r.run].requests]_vars
  /\ [][\A i \in ItemIds : \A k \in 1..Len(runs[i]) :
          runs[i][k].state = "threw"
            => /\ Len(runs'[i]) >= k
               /\ runs'[i][k].requests = runs[i][k].requests]_vars
  /\ [](\A i \in ItemIds : \A k \in 1..Len(runs[i]) :
          (runs[i][k].state = "threw" /\ runs[i][k].stage = 3
             /\ runs[i][k].requests > 0)
            => \A l \in LoopIds :
                 (loops[l].item = i /\ loops[l].run = k)
                   => /\ loops[l].pc \in {"updateError", "sleep"}
                      /\ loops[l].allEmbeddings = << >>)

\* The request of the second sub-batch was rejected after the first
\* sub-batch had been answered: the call threw and no third request was sent
\* although texts were left.
C22_Witness ==
  \E l \in LoopIds :
    /\ loops[l].pc = "updateError"
    /\ loops[l].allEmbeddings = << >>
    /\ runs[loops[l].item][loops[l].run].state = "threw"
    /\ runs[loops[l].item][loops[l].run].stage = 3
    /\ runs[loops[l].item][loops[l].run].requests = 2

\* The loop is in stage 5 of processDocument (insertVectors).
InStage5(l) == loops[l].pc \in {"collectionExists", "insert"}

\* The vector batch a loop in stage 5 has built.
VectorBatch(l) ==
  vectorsToInsert(loops[l].item, loops[l].textChunks, loops[l].allEmbeddings)

\* Entry k of the batch of loop l is chunk k's: file id, chunkIndex and
\* strategy name of the chunk, and the k-th vector embedBatch returned,
\* which is the embedding of the chunk's text.
EntryOfChunk(l, k) ==
  LET r == loops[l]
      v == VectorBatch(l)[k]
  IN /\ v.file_id = r.item
     /\ v.chunk_index = r.textChunks[k].chunkIndex
     /\ v.chunk_strategy = strategyName
     /\ v.chunk_strategy = r.textChunks[k].metadata.chunkStrategy
     /\ k <= Len(r.allEmbeddings)
     /\ v.vector = Some(r.allEmbeddings[k])
     /\ v.vector = Some(Embedding(r.textChunks[k].text))

\* C23 as stated: in every run in stage 5 the vector batch has one entry per
\* chunk in chunk order with the chunk's file id, chunkIndex, strategy name
\* and vector, and every entry's (file_id, chunk_index) is that of a chunk
\* row this run wrote in stage 4 (the run inserted a row for each chunk).
C23_WrittenBySameRun ==
  \A l \in LoopIds :
    InStage5(l)
      => /\ Len(VectorBatch(l)) = Len(loops[l].textChunks)
         /\ \A k \in 1..Len(loops[l].textChunks) : EntryOfChunk(l, k)
         /\ loops[l].chunksCreated = Len(loops[l].textChunks)

\* C23 (amended): in every run in stage 5 the vector batch has one entry per
\* chunk in chunk order with the chunk's file id, chunkIndex, strategy name
\* and vector; every entry's (file_id, chunk_index) is that of the row this
\* run passed to createManyChunks in stage 4 for the same chunk, and the
\* chunk store holds that row (inserted by this run, or present before and
\* skipped as a duplicate). A resolved insert appends exactly this batch.
C23_VectorBatch ==
  /\ [](\A l \in LoopIds :
          InStage5(l)
            => LET r == loops[l]
                   rows == chunksToCreate(r.item, r.textChunks)
               IN /\ Len(VectorBatch(l)) = Len(r.textChunks)
                  /\ \A k \in 1..Len(r.textChunks) :
                       /\ EntryOfChunk(l, k)
                       /\ rows[k].fileId = VectorBatch(l)[k].file_id
                       /\ rows[k].chunkIndex = VectorBatch(l)[k].chunk_index
                       /\ \E j \in 1..Len(chunkTable) : chunkTable[j] = rows[k]
                  /\ r.chunksCreated <= Len(r.textChunks))
  /\ [][\A l \in LoopIds :
          loops[l].pc = "insert" /\ loops'[l].pc = "updateSuccess"
            => /\ milvus'.rows = milvus.rows \o milvusData(VectorBatch(l))
               /\ loops'[l].vectorsInserted = Len(loops[l].textChunks)]_vars

\* A run is in stage 5 with a batch of two entries although it wrote no
\* chunk row: the rows of its chunks were in the store before its stage 4.
C23_Witness ==
  \E l \in LoopIds :
    /\ loops[l].pc = "insert"
    /\ Len(VectorBatch(l)) = 2
    /\ loops[l].chunksCreated = 0
    /\ VectorBatch(l)[2].chunk_index = 1
    /\ \E j \in 1..Len(chunkTable) :
         /\ chunkTable[j].fileId = VectorBatch(l)[2].file_id
         /\ chunkTable[j].chunkIndex = VectorBatch(l)[2].chunk_index

\* ---------------------------------------------------- the chunker on its own
\* FixedSizeChunkingStrategy.chunk called directly. The texts: every
\* sequence of at most MaxTextLen characters over a whitespace character and
\* two others, and 25-character texts (without whitespace; with a
\* whitespace-only stretch in the middle; with single whitespace
\* characters; ending in whitespace).
Chars == {Blank, 1, 2}

ShortTexts ==
  UNION { [1..n -> Chars] : n \in 0..MaxTextLen }

LongText(blanks) ==
  Array([k \in 1..25 |-> IF k \in blanks THEN Blank ELSE k])

LongTexts ==
  { LongText(b) : b \in {{}, 11..20, {3, 13}, 21..25} }

ChunkTexts == { Array(t) : t \in ShortTexts } \cup LongTexts

\* The configurations: every pair of sizes from -1 to MaxWindow, valid or
\* not, and windows of 10 characters with overlap 0 and 5.
ChunkConfigs ==
  { [chunkSize |-> a, chunkOverlap |-> b] :
      a \in -1..MaxWindow, b \in -1..MaxWindow }
  \cup { [chunkSize |-> 10, chunkOverlap |-> 0],
         [chunkSize |-> 10, chunkOverlap |-> 5] }

InitChunk ==
  /\ env = ValidEnv
  /\ files = [i \in ItemIds |-> NoFile]
  /\ queue = [i \in ItemIds |-> NoQueue]
  /\ chunkTable = << >>
  /\ milvus = [exists |-> FALSE, rows |-> << >>]
  /\ instances = {}
  /\ proc = [w \in Workers |-> "new"]
  /\ isRunning = [w \in Workers |-> FALSE]
  /\ loops = [l \in LoopIds |-> NoLoop]
  /\ runs = [i \in ItemIds |-> << >>]
  /\ console = [w \in Workers |-> ""]
  /\ \E text \in ChunkTexts, config \in ChunkConfigs :
       chunkCall = [NoChunkCall EXCEPT !.pc = "called", !.text = text,
                                       !.config = config]

\* chunk(text, config) returns its chunks.
ChunkReturn ==
  /\ chunkCall.pc = "called"
  /\ chunk(chunkCall.text, chunkCall.config).ok
  /\ chunkCall' = [chunkCall EXCEPT
                     !.pc = "returned",
                     !.result = chunk(chunkCall.text, chunkCall.config)]
  /\ UNCHANGED <<env, files, queue, chunkTable, milvus, instances, proc,
                 isRunning, loops, runs, console>>

\* chunk(text, config) throws.
ChunkThrow ==
  /\ chunkCall.pc = "called"
  /\ ~chunk(chunkCall.text, chunkCall.config).ok
  /\ chunkCall' = [chunkCall EXCEPT
                     !.pc = "threw",
                     !.result = chunk(chunkCall.text, chunkCall.config)]
  /\ UNCHANGED <<env, files, queue, chunkTable, milvus, instances, proc,
                 isRunning, loops, runs, console>>

NextChunk == ChunkReturn \/ ChunkThrow

SpecChunk == InitChunk /\ [][NextChunk]_vars

\* The configuration of the call satisfies chunk's preconditions.
ValidConfig(config) ==
  /\ config.chunkSize > 0
  /\ config.chunkOverlap >= 0
  /\ config.chunkOverlap < config.chunkSize

\* The windows a returned call emitted.
Emitted == chunkCall.result.value

\* No window of the given size at the given offsets of the text is
\* whitespace-only.
NoBlankWindow(text, size, offsets) ==
  \A o \in offsets :
    \E p \in (o + 1)..Min(o + size, Len(text)) : text[p] # Blank

\* The startChar values of the emitted windows, in order.
Starts == Array([i \in 1..Len(Emitted) |-> Emitted[i].metadata.startChar])

\* C24: a call with chunkSize > chunkOverlap >= 0 returns for every text; the
\* startChar values of its windows are strictly increasing and every window
\* but the last is exactly chunkSize characters long. chunkSize 10 and
\* overlap 0 on 25 characters without a whitespace-only window give three
\* windows starting at 0, 10 and 20, the last one shorter than 10.
C24_Windows ==
  /\ ValidConfig(chunkCall.config) => chunkCall.pc # "threw"
  /\ chunkCall.pc = "returned" /\ ValidConfig(chunkCall.config)
       => /\ \A i \in 1..(Len(Emitted) - 1) :
               /\ Emitted[i].metadata.startChar
                    < Emitted[i + 1].metadata.startChar
               /\ Emitted[i].metadata.endChar - Emitted[i].metadata.startChar
                    = chunkCall.config.chunkSize
               /\ Len(Emitted[i].text) = chunkCall.config.chunkSize
          /\ \A i \in 1..Len(Emitted) :
               Len(Emitted[i].text) <= chunkCall.config.chunkSize
          /\ ( /\ chunkCall.config = [chunkSize |-> 10, chunkOverlap |-> 0]
               /\ Len(chunkCall.text) = 25
               /\ NoBlankWindow(chunkCall.text, 10, {0, 10, 20}) )
               => /\ Starts = <<0, 10, 20>>
                  /\ Len(Emitted[3].text) < 10

\* The call of the example returned: three windows at 0, 10 and 20, the
\* first two of 10 characters and the last of 5.
C24_Witness ==
  /\ chunkCall.pc = "returned"
  /\ chunkCall.config = [chunkSize |-> 10, chunkOverlap |-> 0]
  /\ Len(chunkCall.text) = 25
  /\ Starts = <<0, 10, 20>>
  /\ Len(Emitted[2].text) = 10
  /\ Len(Emitted[3].text) = 5

\* The call of C25: chunkSize 10 and overlap 5 on a 25-character text none
\* of whose windows at 0, 5, 10, 15, 20 is whitespace-only, returned.
OverlapExample ==
  /\ chunkCall.pc = "returned"
  /\ chunkCall.config = [chunkSize |-> 10, chunkOverlap |-> 5]
  /\ Len(chunkCall.text) = 25
  /\ NoBlankWindow(chunkCall.text, 10, {0, 5, 10, 15, 20})

\* C25 as stated: chunkSize 10 and overlap 5 on a 25-character text without
\* a whitespace-only window give windows starting at 0, 5, 10, 15 and 20.
C25_StartsToTwenty ==
  OverlapExample => Starts = <<0, 5, 10, 15, 20>>

\* C25 (amended): chunkSize 10 and overlap 5 on a 25-character text without
\* a whitespace-only window give windows starting at 0, 5, 10 and 15; the
\* window at 15 ends at 25, the end of the text, and no window follows it.
C25_StartsToFifteen ==
  OverlapExample
    => /\ Starts = <<0, 5, 10, 15>>
       /\ Emitted[4].metadata.endChar = 25
       /\ \A i \in 1..4 : Len(Emitted[i].text) = 10

\* The call of C25 has returned four windows.
C25_Witness ==
  /\ OverlapExample
  /\ Len(Emitted) = 4
  /\ Emitted[4].metadata.startChar = 15

\* C26: for every valid configuration and text the i-th window returned,
\* counting from 0, has chunkIndex i, whether or not whitespace-only windows
\* were skipped before it; the windows are ordered by chunkIndex and by
\* startChar.
C26_Indices ==
  chunkCall.pc = "returned" /\ ValidConfig(chunkCall.config)
    => /\ \A i \in 1..Len(Emitted) : Emitted[i].chunkIndex = i - 1
       /\ \A i \in 1..(Len(Emitted) - 1) :
            /\ Emitted[i].chunkIndex < Emitted[i + 1].chunkIndex
            /\ Emitted[i].metadata.startChar
                 < Emitted[i + 1].metadata.startChar

\* A whitespace-only window between two emitted windows was skipped: the
\* second window returned starts two steps after the first and has index 1.
C26_Witness ==
  /\ chunkCall.pc = "returned"
  /\ chunkCall.config = [chunkSize |-> 10, chunkOverlap |-> 0]
  /\ Len(chunkCall.text) = 25
  /\ Len(Emitted) = 2
  /\ Emitted[1].metadata.startChar = 0
  /\ Emitted[2].metadata.startChar = 20
  /\ Emitted[2].chunkIndex = 1

\* The Error chunk throws for a configuration, by the first test that fails.
configError(config) ==
  IF config.chunkSize <= 0
    THEN Err(<<"Chunk size must be greater than 0">>)
  ELSE IF config.chunkOverlap < 0
    THEN Err(<<"Chunk overlap must be non-negative">>)
  ELSE Err(<<"Chunk overlap must be less than chunk size">>)

\* C27: whenever chunkSize <= 0, chunkOverlap < 0 or chunkOverlap >=
\* chunkSize, chunk throws a configuration error and returns no window,
\* whatever the text, the empty text and whitespace-only texts included; it
\* throws for no other configuration.
C27_InvalidConfig ==
  /\ ~ValidConfig(chunkCall.config) => chunkCall.pc # "returned"
  /\ chunkCall.pc = "threw"
       => /\ ~ValidConfig(chunkCall.config)
          /\ ~chunkCall.result.ok
          /\ chunkCall.result = Throw(configError(chunkCall.config))
  /\ chunkCall.pc = "called" /\ ~ValidConfig(chunkCall.config)
       => ENABLED ChunkThrow

\* A call with a whitespace-only text and an overlap equal to the window
\* size threw.
C27_Witness ==
  /\ chunkCall.pc = "threw"
  /\ chunkCall.text = <<Blank, Blank>>
  /\ chunkCall.config = [chunkSize |-> 2, chunkOverlap |-> 2]
  /\ chunkCall.result.error.message =
       <<"Chunk overlap must be less than chunk size">>

\* C30: for every valid configuration and every text, each position of the
\* text that holds a non-whitespace character lies in the range
\* [startChar, endChar) of at least one window returned, and the text of
\* every window returned is the text's substring over the window's range,
\* which is [startChar, min(startChar + chunkSize, length)).
C30_Coverage ==
  chunkCall.pc = "returned" /\ ValidConfig(chunkCall.config)
    => /\ \A p \in 0..(Len(chunkCall.text) - 1) :
            chunkCall.text[p + 1] # Blank
              => \E i \in 1..Len(Emitted) :
                   /\ Emitted[i].metadata.startChar <= p
                   /\ p < Emitted[i].metadata.endChar
       /\ \A i \in 1..Len(Emitted) :
            LET m == Emitted[i].metadata
            IN /\ 0 <= m.startChar /\ m.startChar < m.endChar
               /\ m.endChar = Min(m.startChar + chunkCall.config.chunkSize,
                                  Len(chunkCall.text))
               /\ Emitted[i].text =
                    [k \in 1..(m.endChar - m.startChar) |->
                       chunkCall.text[m.startChar + k]]

\* A text with whitespace inside and at its end was chunked with overlapping
\* windows: the window of whitespace only was skipped, and the two
\* non-whitespace characters lie in the windows returned.
C30_Witness ==
  /\ chunkCall.pc = "returned"
  /\ chunkCall.text = <<1, Blank, Blank, Blank, 2, Blank>>
  /\ chunkCall.config = [chunkSize |-> 2, chunkOverlap |-> 1]
  /\ Starts = <<0, 3, 4>>
  /\ Emitted[2].text = <<Blank, 2>>

\* C29: every chunk row a processDocument call passes to createManyChunks
\* carries the chunkIndex, text, strategy name, startChar and endChar of the
\* window it was built from, the window that starts at offset 0 included.
C29_RowCarriesWindow ==
  \A l \in LoopIds :
    loops[l].pc = "createManyChunks"
      => LET r == loops[l]
             rows == chunksToCreate(r.item, r.textChunks)
         IN /\ Len(rows) = Len(r.textChunks)
            /\ \A k \in 1..Len(rows) :
                 /\ rows[k].chunkIndex = r.textChunks[k].chunkIndex
                 /\ rows[k].text = r.textChunks[k].text
                 /\ rows[k].chunkStrategy = r.textChunks[k].metadata.chunkStrategy
                 /\ rows[k].startChar = Some(r.textChunks[k].metadata.startChar)
                 /\ rows[k].endChar = Some(r.textChunks[k].metadata.endChar)

\* -------------------------------------------- one worker that is never stopped
\* worker.ts without a signal: the worker is started and runs on. Every
\* awaited call settles (it resolves or rejects) and every sleep ends; which
\* of the two a call does is not constrained.
NextLive == Upload \/ createCollection \/ Main \/ Resolve \/ Reject

SpecLive ==
  Init /\ [][NextLive]_vars /\ WF_vars(Main) /\ WF_vars(Resolve \/ Reject)

\* Row i is in processing and no polling loop holds it: the iteration that
\* claimed it is over.
LeftProcessing(i) ==
  /\ queue[i].status = "processing"
  /\ ~\E l \in LoopIds : InFlight(l) /\ loops[l].item = i

\* A row left in processing stays so in every step: processNextItem queries
\* the queued rows only, and nothing else writes a status.
LeftProcessingStays ==
  [][\A i \in ItemIds :
       LeftProcessing(i) => LeftProcessing(i)' /\ queue'[i] = queue[i]]_vars

\* C28: with one worker that is started and never stopped and external
\* calls that all settle, every queued item is claimed and reaches success
\* or error, and no item stays in processing forever. As a row left in
\* processing stays there for ever (LeftProcessingStays), the claim
\* requires that no row is ever left in processing.
C28_NoItemLeftProcessing ==
  \A i \in ItemIds : ~LeftProcessing(i)
====
